---------------------------- MODULE Spec2Model ----------------------------
(***************************************************************************)
(* BoardBot: the chat interpreter (src/app.py, process_ai_request and its  *)
(* extractors) and the task tools it dispatches to (src/tools.py), over    *)
(* the SQLite store of sprints and tasks.                                  *)
(*                                                                         *)
(* Text is modelled as text: a Python str is a TLA+ string, and TLC's      *)
(* Len, SubSeq and \o act on strings character by character, so that       *)
(* str.lower, str.split, str.strip, the `in` substring test, int() and the *)
(* regular expressions of extract_task_id are computed as Python computes  *)
(* them.  The emoji of the tool responses are written as ASCII tags        *)
(* (":x:", ":ok:", ...), since a module is ASCII.                          *)
(***************************************************************************)
EXTENDS Integers, Sequences, FiniteSets, TLC

VARIABLES
    sprints,        \* table sprints: set of rows [id, name, is_active]
    tasks,          \* table tasks: function rowid -> row
    lastId,         \* AUTOINCREMENT counter of table tasks (sqlite_sequence)
    pc,             \* "idle" | "responded": position of the /chat handler
    chat_message,   \* data['message'] of the request being answered
    backend,        \* what model.generate_content did: "ok" | "error" | "idle"
    genCalls,       \* number of generate_content calls made by the request
    intent,         \* the branch of process_ai_request the request reached
    calls,          \* the tool calls made by the request, in order
    response,       \* the response in flight: [kind, text]
    threads,        \* the requests the threaded server is handling: each
                    \* one's position in its tool or route and its locals
    heard,          \* what a caller that repeats a message has got back:
                    \* the texts returned since table tasks last changed
    extraction      \* an extractor applied on its own: [message, priority]

vars == << sprints, tasks, lastId, pc, chat_message, backend, genCalls,
           intent, calls, response, threads, heard, extraction >>

\* The state of the /chat handler.
chat == << pc, chat_message, backend, genCalls, intent, calls, response >>

store == << sprints, tasks, lastId >>

-----------------------------------------------------------------------------
(* Bounds of the model.                                                    *)

\* Longest sequence of command verbs in a generated message.
MaxVerbs == 2

\* Number of rows the model lets the tools insert (caps lastId).
MaxInserts == 1

\* Number of the sample tasks of init_db the table starts with.
NumSampleTasks == 1

-----------------------------------------------------------------------------
(* Python values.                                                          *)

\* None / a value, for Optional[int] and Optional[str].
NoneInt == [some |-> FALSE, val |-> 0]
NoneStr == [some |-> FALSE, val |-> ""]
Some(v) == [some |-> TRUE, val |-> v]

\* Python truthiness of an Optional[int]: None and 0 are both false.
TruthyInt(x) == x.some /\ x.val # 0

\* Python truthiness of an Optional[str]: None and "" are both false.
TruthyStr(x) == x.some /\ x.val # ""

-----------------------------------------------------------------------------
(* Strings.                                                                *)

UpperLetters == "ABCDEFGHIJKLMNOPQRSTUVWXYZ"
LowerLetters == "abcdefghijklmnopqrstuvwxyz"
Digits == "0123456789"

\* The element of a one-element set: Only({ e : x \in {v} }) is e with x
\* naming the value v, computed once.
Only(S) == CHOOSE x \in S : TRUE

CharAt(s, i) == SubSeq(s, i, i)

\* c in s, for a single character c.
HasChar(s, c) == \E i \in 1..Len(s) : CharAt(s, i) = c

\* kw in s: the substring test.
Contains(s, kw) ==
    \E i \in 1..(Len(s) - Len(kw) + 1) : SubSeq(s, i, i + Len(kw) - 1) = kw

\* any(word in s for word in kws)
ContainsAny(s, kws) == \E kw \in kws : Contains(s, kw)

LowerChar(c) ==
    IF HasChar(UpperLetters, c)
    THEN CharAt(LowerLetters,
                CHOOSE i \in 1..Len(UpperLetters) : CharAt(UpperLetters, i) = c)
    ELSE c

RECURSIVE LowerFrom(_, _)
LowerFrom(s, i) ==
    IF i > Len(s) THEN "" ELSE LowerChar(CharAt(s, i)) \o LowerFrom(s, i + 1)

\* str.lower()
Lower(s) == LowerFrom(s, 1)

IsSpace(c) == c = " "
IsDigit(c) == c # "" /\ HasChar(Digits, c)
\* \w of the re module.
IsWordChar(c) ==
    c # "" /\ (HasChar(LowerLetters, c) \/ HasChar(UpperLetters, c)
               \/ HasChar(Digits, c) \/ c = "_")

\* str.split(): the maximal runs of non-whitespace characters, in order.
RECURSIVE SplitFrom(_, _, _)
SplitFrom(s, i, cur) ==
    IF i > Len(s)
    THEN IF cur = "" THEN << >> ELSE << cur >>
    ELSE IF IsSpace(CharAt(s, i))
         THEN IF cur = "" THEN SplitFrom(s, i + 1, "")
              ELSE << cur >> \o SplitFrom(s, i + 1, "")
         ELSE SplitFrom(s, i + 1, cur \o CharAt(s, i))

Split(s) == SplitFrom(s, 1, "")

\* " ".join(words)
RECURSIVE Join(_)
Join(words) ==
    IF words = << >> THEN ""
    ELSE IF Len(words) = 1 THEN words[1]
    ELSE words[1] \o " " \o Join(Tail(words))

\* Index of the first character of s, at or after i, that is not in chars.
RECURSIVE LStripIndex(_, _, _)
LStripIndex(s, chars, i) ==
    IF i <= Len(s) /\ HasChar(chars, CharAt(s, i))
    THEN LStripIndex(s, chars, i + 1) ELSE i

\* Index of the last character of s, at or before i, that is not in chars.
RECURSIVE RStripIndex(_, _, _)
RStripIndex(s, chars, i) ==
    IF i >= 1 /\ HasChar(chars, CharAt(s, i))
    THEN RStripIndex(s, chars, i - 1) ELSE i

\* str.strip(chars)
Strip(s, chars) ==
    SubSeq(s, LStripIndex(s, chars, 1), RStripIndex(s, chars, Len(s)))

DigitValue(c) == (CHOOSE i \in 1..Len(Digits) : CharAt(Digits, i) = c) - 1

\* The number written by the first n characters of the digits ds.
RECURSIVE DigitsPrefixValue(_, _)
DigitsPrefixValue(ds, n) ==
    IF n = 0 THEN 0
    ELSE 10 * DigitsPrefixValue(ds, n - 1) + DigitValue(CharAt(ds, n))

\* The number written by a string of digits.
DigitsValue(ds) == DigitsPrefixValue(ds, Len(ds))

AllDigits(s) == s # "" /\ \A i \in 1..Len(s) : IsDigit(CharAt(s, i))

\* int(tok) of a whitespace-free token: an optional sign and digits; None
\* stands for ValueError.
ParseInt(tok) ==
    LET signed == tok # "" /\ Head(tok) \in {"+", "-"}
        body   == IF signed THEN Tail(tok) ELSE tok
    IN  IF ~AllDigits(body) THEN NoneInt
        ELSE IF signed /\ Head(tok) = "-" THEN Some(0 - DigitsValue(body))
        ELSE Some(DigitsValue(body))

\* Index of the last character of the run of digits starting at i (i - 1 if
\* there is none): what a greedy \d+ consumes.
RECURSIVE DigitsEnd(_, _)
DigitsEnd(s, i) ==
    IF i <= Len(s) /\ IsDigit(CharAt(s, i)) THEN DigitsEnd(s, i + 1) ELSE i - 1

\* Index of the first character at or after i that is not whitespace.
RECURSIVE SkipSpaces(_, _)
SkipSpaces(s, i) ==
    IF i <= Len(s) /\ IsSpace(CharAt(s, i)) THEN SkipSpaces(s, i + 1) ELSE i

\* Start of the digits of a match of  kw\s+(\d+)  at position i, or 0.
MatchKwSpaceDigits(s, kw, i) ==
    LET j == i + Len(kw)
    IN  IF j - 1 <= Len(s) /\ SubSeq(s, i, j - 1) = kw
        THEN Only({ IF k > j /\ DigitsEnd(s, k) >= k THEN k ELSE 0 :
                       k \in { SkipSpaces(s, j) } })
        ELSE 0

\* Start of the digits of a match of  kw(\d+)  at position i, or 0.
MatchKwDigits(s, kw, i) ==
    LET j == i + Len(kw)
    IN  IF j - 1 <= Len(s) /\ SubSeq(s, i, j - 1) = kw /\ DigitsEnd(s, j) >= j
        THEN j ELSE 0

\* Start of the digits of a match of  \b(\d+)\b  at position i, or 0.
MatchStandalone(s, i) ==
    Only({ IF e >= i
              /\ (i = 1 \/ ~IsWordChar(CharAt(s, i - 1)))
              /\ (e = Len(s) \/ ~IsWordChar(CharAt(s, e + 1)))
           THEN i ELSE 0 :
              e \in { DigitsEnd(s, i) } })


-----------------------------------------------------------------------------
(* Entity extractors (src/app.py).                                         *)

\* The four patterns of extract_task_id, in the order they are tried:
\*   1: task\s+(\d+)   2: #(\d+)   3: id\s+(\d+)   4: \b(\d+)\b
NumPatterns == 4

\* Start of the digits captured by a match of pattern p at position i, or 0.
MatchAt(s, p, i) ==
    CASE p = 1 -> MatchKwSpaceDigits(s, "task", i)
      [] p = 2 -> MatchKwDigits(s, "#", i)
      [] p = 3 -> MatchKwSpaceDigits(s, "id", i)
      [] p = 4 -> MatchStandalone(s, i)

\* re.search(pattern, s): the capture of the leftmost match, or None.
Search(s, p) ==
    Only({ IF hits = {} THEN NoneInt
           ELSE Only({ Some(DigitsValue(SubSeq(s, k, DigitsEnd(s, k)))) :
                          k \in { MatchAt(s, p, i) :
                                     i \in { h \in hits :
                                                \A g \in hits : h <= g } } }) :
              hits \in { { i \in 1..Len(s) : MatchAt(s, p, i) > 0 } } })

\* for pattern in patterns: the first pattern, from p on, that matches.
RECURSIVE SearchFrom(_, _)
SearchFrom(s, p) ==
    IF p > NumPatterns THEN NoneInt
    ELSE Only({ IF found.some THEN found ELSE SearchFrom(s, p + 1) :
                   found \in { Search(s, p) } })

extract_task_id(message) ==
    Only({ SearchFrom(message_lower, 1) : message_lower \in { Lower(message) } })

StatusOfLower(message_lower) ==
    IF ContainsAny(message_lower, {"todo", "to do", "backlog"})
    THEN Some("todo")
    ELSE IF ContainsAny(message_lower,
                        {"progress", "doing", "working", "started"})
    THEN Some("in_progress")
    ELSE IF ContainsAny(message_lower,
                        {"done", "completed", "finished", "complete"})
    THEN Some("done")
    ELSE NoneStr

extract_status(message) ==
    Only({ StatusOfLower(message_lower) : message_lower \in { Lower(message) } })

\* Least index i in from..Len(words) with Lower(words[i]) in set, or 0.
FirstWordIn(words, from, set) ==
    Only({ IF hits = {} THEN 0
           ELSE CHOOSE h \in hits : \A g \in hits : h <= g :
              hits \in { { i \in from..Len(words) : Lower(words[i]) \in set } } })

\* The "for [name]" loop of parse_task_creation: the word after the first
\* "for" that has a word after it.
ParseAssignee(words) ==
    Only({ IF i = 0 THEN "" ELSE Strip(words[i + 1], ",.") :
              i \in { FirstWordIn(SubSeq(words, 1, Len(words) - 1), 1,
                                  {"for"}) } })

\* The priority loop without its  break: the scan goes on after a number.
RECURSIVE PriorityScanNoBreak(_, _, _)
PriorityScanNoBreak(words, i, priority) ==
    IF i > Len(words) THEN priority
    ELSE Only({
        IF word \in {"priority", "p"} /\ i + 1 <= Len(words)
        THEN Only({ PriorityScanNoBreak(words, i + 1,
                                        IF n.some THEN n.val ELSE priority) :
                       n \in { ParseInt(words[i + 1]) } })
        ELSE IF word = "high" THEN PriorityScanNoBreak(words, i + 1, 8)
        ELSE IF word = "low" THEN PriorityScanNoBreak(words, i + 1, 3)
        ELSE PriorityScanNoBreak(words, i + 1, priority) :
            word \in { Lower(words[i]) } })

\* The priority loop of parse_task_creation from word i on, with the
\* priority found so far.
RECURSIVE PriorityScan(_, _, _)
PriorityScan(words, i, priority) ==
    IF i > Len(words) THEN priority
    ELSE Only({
        IF word \in {"priority", "p"} /\ i + 1 <= Len(words)
        THEN Only({ IF n.some THEN n.val                          \* break
                    ELSE PriorityScan(words, i + 1, priority) :  \* ValueError
                       n \in { ParseInt(words[i + 1]) } })
        ELSE IF word = "high" THEN PriorityScan(words, i + 1, 8)
        ELSE IF word = "low" THEN PriorityScan(words, i + 1, 3)
        ELSE PriorityScan(words, i + 1, priority) :
            word \in { Lower(words[i]) } })

DefaultPriority == 5

ParsePriority(words) == PriorityScan(words, 1, DefaultPriority)

\* The title span of parse_task_creation: it starts after word t, the first
\* of the trigger words (at the first word if there is none), and ends
\* before word s, the first of the stop words from there on (with the last
\* word if there is none).
TitleSpan(words, t, s) ==
    LET start_idx == t + 1
        end_idx   == IF s = 0 THEN Len(words) ELSE s - 1
    IN  IF start_idx <= end_idx
        THEN Only({ Strip(joined, ",.") :
                       joined \in { Join(SubSeq(words, start_idx, end_idx)) } })
        ELSE "New Task"

ParseTitle(words) ==
    Only({ Only({ TitleSpan(words, t, s) :
                     s \in { FirstWordIn(words, t + 1,
                                         {"for", "priority", "p"}) } }) :
              t \in { FirstWordIn(words, 1,
                                  {"add", "create", "new", "task"}) } })

parse_task_creation(message) ==
    Only({ [title    |-> ParseTitle(words),
            assignee |-> ParseAssignee(words),
            priority |-> ParsePriority(words)] :
              words \in { Split(message) } })

-----------------------------------------------------------------------------
(* The task tools (src/tools.py).  A tool takes the database db =           *)
(* [sprints, tasks, lastId] and returns [response, tasks, lastId]: the text *)
(* it returns and the committed contents of table tasks.                    *)

Statuses == {"todo", "in_progress", "done"}

\* SELECT ... FROM sprints WHERE is_active = 1 LIMIT 1
ActiveSprints(db) == { sp \in db.sprints : sp.is_active = 1 }
ActiveSprint(db) ==
    CHOOSE sp \in ActiveSprints(db) : \A o \in ActiveSprints(db) : sp.id <= o.id

Text(kind, text) == [kind |-> kind, text |-> text]

Unchanged(db, resp) ==
    [response |-> resp, tasks |-> db.tasks, lastId |-> db.lastId]

StatusDisplay(status) ==
    CASE status = "todo" -> "To Do"
      [] status = "in_progress" -> "In Progress"
      [] status = "done" -> "Done"

StatusEmoji(status) ==
    CASE status = "todo" -> ":memo:"
      [] status = "in_progress" -> ":arrows:"
      [] status = "done" -> ":ok:"

add_task(db, title, description, assignee, priority, status, blocker) ==
    IF ActiveSprints(db) = {}
    THEN Unchanged(db, Text("no_sprint", "Error: No active sprint found"))
    ELSE LET task_id == db.lastId + 1
             row == [title |-> title, description |-> description,
                     assignee |-> assignee, priority |-> priority,
                     status |-> status, blocker |-> blocker,
                     sprint_id |-> ActiveSprint(db).id]
         IN  [response |->
                  Text("added",
                       ":ok: Successfully added task '" \o title
                       \o "' with ID " \o ToString(task_id)
                       \o " assigned to "
                       \o (IF assignee # "" THEN assignee ELSE "Unassigned")),
              tasks |-> [i \in DOMAIN db.tasks \cup {task_id} |->
                            IF i = task_id THEN row ELSE db.tasks[i]],
              lastId |-> task_id]

update_task_status(db, task_id, status) ==
    IF status \notin Statuses
    THEN Unchanged(db, Text("invalid_status",
             ":x: Error: Status must be 'todo', 'in_progress', or 'done'"))
    ELSE IF task_id \notin DOMAIN db.tasks
    THEN Unchanged(db, Text("not_found",
             ":x: Error: Task with ID " \o ToString(task_id) \o " not found"))
    ELSE [response |->
              Text("moved",
                   ":ok: Successfully moved task '" \o db.tasks[task_id].title
                   \o "' (ID " \o ToString(task_id) \o ") to "
                   \o StatusDisplay(status)),
          tasks |-> [db.tasks EXCEPT ![task_id].status = status],
          lastId |-> db.lastId]

delete_task(db, task_id) ==
    IF task_id \notin DOMAIN db.tasks
    THEN Unchanged(db, Text("not_found",
             ":x: Error: Task with ID " \o ToString(task_id) \o " not found"))
    ELSE [response |->
              Text("deleted",
                   ":bin: Successfully deleted task '"
                   \o db.tasks[task_id].title
                   \o "' (ID " \o ToString(task_id) \o ")"),
          tasks |-> [i \in DOMAIN db.tasks \ {task_id} |-> db.tasks[i]],
          lastId |-> db.lastId]

\* ORDER BY priority DESC, created_at ASC over the rows ids: created_at
\* never decreases with the rowid and SQLite keeps rows of equal keys in
\* rowid order, so the order is priority descending, then rowid ascending.
RECURSIVE OrderByPriority(_, _)
OrderByPriority(db, ids) ==
    IF ids = {} THEN << >>
    ELSE LET first == CHOOSE i \in ids : \A j \in ids :
                          \/ db.tasks[i].priority > db.tasks[j].priority
                          \/ /\ db.tasks[i].priority = db.tasks[j].priority
                             /\ i <= j
         IN  << first >> \o OrderByPriority(db, ids \ {first})

\* The text of one task in a listing; grouped: the listing of all statuses.
TaskLine(db, id, grouped) ==
    LET t == db.tasks[id]
    IN  (IF grouped THEN "  * #" ELSE "* #") \o ToString(id) \o ": " \o t.title
        \o (IF t.assignee # "" THEN " (" \o t.assignee \o ")" ELSE "")
        \o (IF t.priority # DefaultPriority
            THEN " [P" \o ToString(t.priority) \o "]" ELSE "")
        \o (IF TruthyStr(t.blocker)
            THEN " :blocked: " \o t.blocker.val ELSE "")
        \o (IF ~grouped /\ t.description # ""
            THEN "\n  :doc: " \o t.description ELSE "")
        \o "\n"

RECURSIVE TaskLines(_, _, _)
TaskLines(db, ids, grouped) ==
    IF ids = << >> THEN ""
    ELSE TaskLine(db, Head(ids), grouped) \o TaskLines(db, Tail(ids), grouped)

\* One status group of the listing of all statuses.
StatusGroup(db, ordered, status_key) ==
    LET status_tasks ==
            SelectSeq(ordered, LAMBDA i : db.tasks[i].status = status_key)
    IN  IF status_tasks = << >> THEN ""
        ELSE "**" \o StatusEmoji(status_key) \o " "
             \o StatusDisplay(status_key) \o ":**\n"
             \o TaskLines(db, status_tasks, TRUE) \o "\n"

\* get_tasks(status): status is None or Some(status).
get_tasks(db, status) ==
    IF ActiveSprints(db) = {}
    THEN Unchanged(db, Text("no_sprint", ":x: Error: No active sprint found"))
    ELSE
    LET sprint  == ActiveSprint(db)
        rows    == { i \in DOMAIN db.tasks :
                       /\ db.tasks[i].sprint_id = sprint.id
                       /\ TruthyStr(status) => db.tasks[i].status = status.val }
        ordered == OrderByPriority(db, rows)
        head    == ":clipboard: **" \o sprint.name \o "** ("
                   \o ToString(Len(ordered)) \o " tasks)\n\n"
    IN  IF ordered = << >>
        THEN Unchanged(db, Text("list",
                 ":clipboard: No tasks found in sprint '" \o sprint.name \o "'"
                 \o (IF TruthyStr(status)
                     THEN " with status '" \o status.val \o "'" ELSE "")))
        ELSE IF ~TruthyStr(status)
        THEN Unchanged(db, Text("list",
                 Strip(head \o StatusGroup(db, ordered, "todo")
                            \o StatusGroup(db, ordered, "in_progress")
                            \o StatusGroup(db, ordered, "done"), " \n")))
        ELSE Unchanged(db, Text("list",
                 Strip(head \o "**" \o StatusEmoji(status.val) \o " "
                            \o StatusDisplay(status.val) \o ":**\n"
                            \o TaskLines(db, ordered, FALSE), " \n")))

\* round(done / total * 100, 1), in tenths of a percent: the nearest tenth,
\* a tie going to the even one.
CompletionTenths(done_count, total_tasks) ==
    LET q == (1000 * done_count) \div total_tasks
        r == (1000 * done_count) % total_tasks
    IN  IF 2 * r > total_tasks \/ (2 * r = total_tasks /\ q % 2 = 1)
        THEN q + 1 ELSE q

get_task_stats(db) ==
    IF ActiveSprints(db) = {}
    THEN Unchanged(db, Text("no_sprint", ":x: Error: No active sprint found"))
    ELSE
    LET sprint == ActiveSprint(db)
        rows   == { i \in DOMAIN db.tasks : db.tasks[i].sprint_id = sprint.id }
        count(status) ==
            Cardinality({ i \in rows : db.tasks[i].status = status })
        total_tasks   == Cardinality(rows)
        blocked_tasks == Cardinality({ i \in rows : db.tasks[i].blocker.some })
        rate == CompletionTenths(count("done"), total_tasks)
    IN  IF total_tasks = 0
        THEN Unchanged(db, Text("stats",
                 ":chart: **" \o sprint.name \o "**: No tasks yet!"))
        ELSE Unchanged(db, Text("stats",
                 ":chart: **Sprint Statistics: " \o sprint.name \o "**\n\n"
                 \o ":memo: To Do: " \o ToString(count("todo")) \o "\n"
                 \o ":arrows: In Progress: "
                 \o ToString(count("in_progress")) \o "\n"
                 \o ":ok: Done: " \o ToString(count("done")) \o "\n"
                 \o ":blocked: Blocked: " \o ToString(blocked_tasks) \o "\n\n"
                 \o ":up: **Progress: " \o ToString(rate \div 10) \o "."
                 \o ToString(rate % 10) \o "%** ("
                 \o ToString(count("done")) \o "/" \o ToString(total_tasks)
                 \o " completed)"))

-----------------------------------------------------------------------------
(* The store as init_db leaves it.                                         *)

SprintName == "Sprint 1 - Q4 Planning"

SampleTask(title, description, assignee, priority, status, blocker) ==
    [title |-> title, description |-> description, assignee |-> assignee,
     priority |-> priority, status |-> status, blocker |-> blocker,
     sprint_id |-> 1]

\* sample_tasks of init_db, in insertion order.
SampleTasks == <<
    SampleTask("User Authentication System",
               "Implement JWT-based login and registration system with password hashing",
               "John", 8, "in_progress", NoneStr),
    SampleTask("Database Migration Script",
               "Create migration scripts for production database schema updates",
               "Sarah", 5, "todo", NoneStr),
    SampleTask("API Documentation",
               "Complete OpenAPI spec and generate interactive docs",
               "Mike", 3, "todo", Some("Waiting on API finalization")),
    SampleTask("Payment Integration",
               "Integrate Stripe payment processing for subscriptions",
               "Alice", 9, "in_progress", NoneStr),
    SampleTask("User Dashboard",
               "Build responsive dashboard with charts and analytics",
               "Bob", 6, "done", NoneStr),
    SampleTask("Email Notifications",
               "Set up automated email notifications for key events",
               "Carol", 4, "todo", Some("Waiting on email service approval")) >>

\* tasks.db outlives the process and init_db runs only under __main__; the
\* tools read whichever sprints table the file holds, and test for a missing
\* active sprint.  The store starts with the sample sprint, active as init_db
\* inserts it or not active.
SprintTables ==
    { { [id |-> 1, name |-> SprintName, is_active |-> a] } : a \in {0, 1} }

-----------------------------------------------------------------------------
(* The chat messages the model sends.                                      *)

\* One verb for each rule of the if / elif chain.
Verbs == {"summary", "show", "add", "delete", "move"}

VerbSeqs == UNION { [1..k -> Verbs] : k \in 0..MaxVerbs }

VerbMessages ==
    { Join(v \o tail) : v \in VerbSeqs,
                        tail \in { << >>, << "task", "1", "to", "done" >> } }

IdPhrases ==
    { << "task" >>, << "task", "0" >>, << "task", "1" >>, << "task", "2" >>,
      << "task", "42" >>, << "task", "#1" >>, << "#7", "task", "1" >>,
      << "task", "id", "1" >>, << "tasks", "1" >> }

IdMessages ==
    { Join(<< v >> \o obj \o st) :
          v \in {"delete", "move"}, obj \in IdPhrases,
          st \in { << >>, << "to", "done" >>, << "finished" >> } }

StatusPhrases ==
    { << >>, << "todo" >>, << "to", "do" >>, << "backlog" >>, << "doing" >>,
      << "working" >>, << "started" >>, << "done" >>, << "completed" >>,
      << "finished" >>, << "complete" >> }

ListMessages == { Join(<< "show" >> \o st \o << "tasks" >>) : st \in StatusPhrases }

OtherMessages ==
    { "stats", "show my progress on task 1", "task summary please",
      "add task Design Review for Maria priority 7",
      "add task Deploy for Ann priority 12",
      "create a task Fix login, for Bob.",
      "Delete Task 1", "move task 2 to started", "hello", "list tasks",
      "what should I work on next?" }

Messages == VerbMessages \cup IdMessages \cup ListMessages \cup OtherMessages

BackendOutcomes == {"ok", "error"}

-----------------------------------------------------------------------------
(* The interpreter (src/app.py, process_ai_request).                       *)

\* A tool call as the interpreter makes it; the fields a tool does not take
\* keep these values.
Call(op) ==
    [op |-> op, task_id |-> 0, status |-> NoneStr,
     title |-> "", assignee |-> "", priority |-> 0]

\* The text of a successful generate_content, and str(e) of a failed one.
AiResponse == "I can help you manage the tasks of the sprint."
BackendErrorText == "503 The model is overloaded"

\* Classify with the delete rule tested before the add rule.
ClassifyDeleteFirst(user_lower) ==
    IF ContainsAny(user_lower,
                   {"stats", "statistics", "summary", "progress", "overview"})
    THEN "get_stats"
    ELSE IF ContainsAny(user_lower, {"show", "list", "get", "display"})
            /\ Contains(user_lower, "task")
    THEN "list_tasks"
    ELSE IF ContainsAny(user_lower, {"delete", "remove"})
            /\ Contains(user_lower, "task")
    THEN "delete_task"
    ELSE IF ContainsAny(user_lower, {"add", "create", "new"})
            /\ Contains(user_lower, "task")
    THEN "add_task"
    ELSE IF ContainsAny(user_lower, {"move", "update", "change"})
            /\ Contains(user_lower, "task")
    THEN "update_status"
    ELSE "none"

\* The if / elif chain over user_lower: the branch that is taken.
Classify(user_lower) ==
    IF ContainsAny(user_lower,
                   {"stats", "statistics", "summary", "progress", "overview"})
    THEN "get_stats"
    ELSE IF ContainsAny(user_lower, {"show", "list", "get", "display"})
            /\ Contains(user_lower, "task")
    THEN "list_tasks"
    ELSE IF ContainsAny(user_lower, {"add", "create", "new"})
            /\ Contains(user_lower, "task")
    THEN "add_task"
    ELSE IF ContainsAny(user_lower, {"delete", "remove"})
            /\ Contains(user_lower, "task")
    THEN "delete_task"
    ELSE IF ContainsAny(user_lower, {"move", "update", "change"})
            /\ Contains(user_lower, "task")
    THEN "update_status"
    ELSE "none"

\* The status filter the list branch passes to get_tasks.
ListFilter(user_lower) ==
    IF Contains(user_lower, "todo") THEN Some("todo")
    ELSE IF ContainsAny(user_lower, {"progress", "doing", "working"})
    THEN Some("in_progress")
    ELSE IF ContainsAny(user_lower, {"done", "completed", "finished"})
    THEN Some("done")
    ELSE NoneStr

\* What the interpreter reads in a message: the values of the pure functions
\* process_ai_request applies to it.
Reading(user_message) ==
    [user_lower |-> Lower(user_message),
     branch     |-> Classify(Lower(user_message)),
     filter     |-> ListFilter(Lower(user_message)),
     task_id    |-> extract_task_id(user_message),
     status     |-> extract_status(user_message),
     creation   |-> parse_task_creation(user_message)]

\* The readings of the messages of the model, computed once.
Readings == [m \in Messages |-> Reading(m)]

\* What one run of the interpreter did: the branch it reached, the tool
\* calls it made, its return value (or the exception it let through) and
\* the table it left.
Outcome(intent_, calls_, r) ==
    [intent |-> intent_, calls |-> calls_, raised |-> FALSE,
     response |-> r.response, tasks |-> r.tasks, lastId |-> r.lastId]

\* The delete branch.
DeleteBranch(db, user_message) ==
    LET task_id == Readings[user_message].task_id
    IN  IF TruthyInt(task_id)
        THEN Outcome("delete_task",
                     << [Call("delete_task") EXCEPT !.task_id = task_id.val] >>,
                     delete_task(db, task_id.val))
        ELSE Outcome("delete_task", << >>,
                     Unchanged(db, Text("clarify",
           "Please specify a task ID to delete (e.g., 'delete task 5')")))

\* The update branch.
UpdateBranch(db, user_message) ==
    LET task_id == Readings[user_message].task_id
        status  == Readings[user_message].status
    IN  IF TruthyInt(task_id) /\ TruthyStr(status)
        THEN Outcome("update_status",
                     << [Call("update_task_status") EXCEPT
                            !.task_id = task_id.val, !.status = status] >>,
                     update_task_status(db, task_id.val, status.val))
        ELSE Outcome("update_status", << >>,
                     Unchanged(db, Text("clarify",
           "Please specify task ID and status (e.g., 'move task 1 to done')")))

\* The add branch.
AddBranch(db, user_message) ==
    LET p == Readings[user_message].creation
    IN  Outcome("add_task",
                << [Call("add_task") EXCEPT
                       !.title = p.title, !.assignee = p.assignee,
                       !.priority = p.priority, !.status = Some("todo")] >>,
                add_task(db, p.title, "", p.assignee, p.priority, "todo",
                         NoneStr))

\* The body of the try block once generate_content has returned.
Dispatch(db, user_message) ==
    LET branch == Readings[user_message].branch
        filter == Readings[user_message].filter
    IN  CASE branch = "get_stats" ->
               Outcome(branch, << Call("get_task_stats") >>, get_task_stats(db))
          [] branch = "list_tasks" ->
               Outcome(branch,
                       << [Call("get_tasks") EXCEPT !.status = filter] >>,
                       get_tasks(db, filter))
          [] branch = "add_task" -> AddBranch(db, user_message)
          [] branch = "delete_task" -> DeleteBranch(db, user_message)
          [] branch = "update_status" -> UpdateBranch(db, user_message)
          [] branch = "none" ->
               Outcome(branch, << >>, Unchanged(db, Text("ai", AiResponse)))

\* The try block: generate_content first, then the dispatch.  gen is what
\* the backend does: "ok" or "error" (generate_content or response.text
\* raises).
TryBlock(db, user_message, gen) ==
    IF gen = "error"
    THEN [Outcome("error", << >>, Unchanged(db, Text("raised", BackendErrorText)))
             EXCEPT !.raised = TRUE]
    ELSE Dispatch(db, user_message)

\* process_ai_request without its  except Exception  clause.
process_ai_requestNoExcept(db, user_message, gen) ==
    TryBlock(db, user_message, gen)

\* process_ai_request: the try block under  except Exception.
process_ai_request(db, user_message, gen) ==
    LET r == TryBlock(db, user_message, gen)
    IN  IF r.raised
        THEN [r EXCEPT !.raised = FALSE,
                       !.response = Text("error",
                           "Sorry, I encountered an error: " \o r.response.text)]
        ELSE r

\* generate_content is called once, first thing, by every run.
GenerateCalls(user_message) == 1

-----------------------------------------------------------------------------
(* The /chat handler.                                                      *)

Init ==
    /\ sprints \in SprintTables
    /\ tasks = [i \in 1..NumSampleTasks |-> SampleTasks[i]]
    /\ lastId = NumSampleTasks
    /\ pc = "idle"
    /\ chat_message = ""
    /\ backend = "idle"
    /\ genCalls = 0
    /\ intent = "idle"
    /\ calls = << >>
    /\ response = Text("idle", "")
    /\ threads = << >>
    /\ heard = << >>
    /\ extraction = << >>

Db == [sprints |-> sprints, tasks |-> tasks, lastId |-> lastId]

\* POST /chat with a message: chat() runs process_ai_request to its end and
\* the response is in flight.  An exception that process_ai_request lets
\* through is answered by chat() with status 500.
ChatRequest ==
    /\ pc = "idle"
    /\ \E user_message \in Messages, gen \in BackendOutcomes :
         \E r \in { process_ai_request(Db, user_message, gen) } :
             /\ r.lastId <= NumSampleTasks + MaxInserts
             /\ chat_message' = user_message
             /\ backend' = gen
             /\ genCalls' = GenerateCalls(user_message)
             /\ intent' = r.intent
             /\ calls' = r.calls
             /\ response' = IF r.raised
                            THEN Text("chat_error",
                                      "Chat error: " \o r.response.text)
                            ELSE r.response
             /\ tasks' = r.tasks
             /\ lastId' = r.lastId
    /\ pc' = "responded"
    /\ UNCHANGED << sprints, threads, heard, extraction >>

\* POST /chat without a message: 400, before the interpreter is called.
ChatBadRequest ==
    /\ pc = "idle"
    /\ pc' = "responded"
    /\ chat_message' = ""
    /\ backend' = "idle"
    /\ genCalls' = 0
    /\ intent' = "bad_request"
    /\ calls' = << >>
    /\ response' = Text("bad_request", "Message is required")
    /\ UNCHANGED << store, threads, heard, extraction >>

\* The response is delivered; the handler's locals are gone.
ChatReturn ==
    /\ pc = "responded"
    /\ pc' = "idle"
    /\ chat_message' = ""
    /\ backend' = "idle"
    /\ genCalls' = 0
    /\ intent' = "idle"
    /\ calls' = << >>
    /\ response' = Text("idle", "")
    /\ UNCHANGED << store, threads, heard, extraction >>

Next == ChatRequest \/ ChatBadRequest \/ ChatReturn

Spec == Init /\ [][Next]_vars

-----------------------------------------------------------------------------
(* Properties.                                                             *)

\* A request with a message has been answered.
Answered == pc = "responded" /\ intent # "bad_request"

\* ChatRequest has just run.
Interpreted == pc = "idle" /\ pc' = "responded" /\ intent' # "bad_request"

UserLower == Readings[chat_message].user_lower

\* The rules of the intent classifier, numbered as the specification numbers
\* them, and the tool each dispatches to.
RuleHolds(i, user_lower) ==
    CASE i = 1 -> ContainsAny(user_lower, {"stats", "statistics", "summary",
                                            "progress", "overview"})
      [] i = 2 -> /\ ContainsAny(user_lower, {"show", "list", "get", "display"})
                  /\ Contains(user_lower, "task")
      [] i = 3 -> /\ ContainsAny(user_lower, {"add", "create", "new"})
                  /\ Contains(user_lower, "task")
      [] i = 4 -> /\ ContainsAny(user_lower, {"delete", "remove"})
                  /\ Contains(user_lower, "task")
      [] i = 5 -> /\ ContainsAny(user_lower, {"move", "update", "change"})
                  /\ Contains(user_lower, "task")
      [] i = 6 -> TRUE

LowestRule(user_lower) ==
    CHOOSE i \in 1..6 : /\ RuleHolds(i, user_lower)
                        /\ \A j \in 1..(i - 1) : ~RuleHolds(j, user_lower)

RuleIntent ==
    << "get_stats", "list_tasks", "add_task", "delete_task", "update_status",
       "none" >>

RuleTool ==
    << "get_task_stats", "get_tasks", "add_task", "delete_task",
       "update_task_status", "no tool" >>

ClarifyDelete == "Please specify a task ID to delete (e.g., 'delete task 5')"
ClarifyUpdate ==
    "Please specify task ID and status (e.g., 'move task 1 to done')"

\* C1: a message whose lower-cased text contains "stats", "summary" or
\* "progress" makes the interpreter call get_task_stats exactly once and no
\* other tool, whatever the backend does.
C1_StatsWordCallsGetStats ==
    (Answered /\ ContainsAny(UserLower, {"stats", "summary", "progress"}))
        => calls = << Call("get_task_stats") >>

\* C2: the rules are tried in the order get_stats, list_tasks, add_task,
\* delete_task, update_status, none and the first that holds decides: a run
\* that reaches the classifier takes the branch of the lowest-numbered rule
\* that holds, the interpreter makes at most one tool call, and that call is
\* to the tool of that rule.
C2_FirstRuleDecides ==
    Answered =>
        /\ Len(calls) <= 1
        /\ calls # << >> => calls[1].op = RuleTool[LowestRule(UserLower)]
        /\ intent # "error" => intent = RuleIntent[LowestRule(UserLower)]

\* C2 witness: a message with "add", "delete" and "task" and no stats or
\* list keyword has been dispatched to add_task.
C2_Witness ==
    /\ Answered
    /\ Contains(UserLower, "add") /\ Contains(UserLower, "delete")
    /\ Contains(UserLower, "task")
    /\ LowestRule(UserLower) = 3
    /\ Len(calls) = 1 /\ calls[1].op = "add_task"

\* C3: in the delete branch, no id found gives the clarification and no tool
\* call; any id found, 0 included, gives delete_task with exactly that id.
C3_DeleteCallsWithAnyId ==
    (Answered /\ intent = "delete_task") =>
        LET task_id == Readings[chat_message].task_id
        IN  /\ ~task_id.some =>
                  response.text = ClarifyDelete /\ calls = << >>
            /\ task_id.some =>
                  calls = << [Call("delete_task") EXCEPT
                                 !.task_id = task_id.val] >>

\* C4: in the update branch, update_task_status(id, status) is called if and
\* only if an id and a status were extracted; otherwise the clarification is
\* returned and the store is neither called nor changed.
C4_UpdateIffIdAndStatus ==
    [][(Interpreted /\ intent' = "update_status") =>
          LET task_id == Readings[chat_message'].task_id
              status  == Readings[chat_message'].status
          IN  IF task_id.some /\ status.some
              THEN calls' = << [Call("update_task_status") EXCEPT
                                   !.task_id = task_id.val,
                                   !.status = status] >>
              ELSE /\ response'.text = ClarifyUpdate
                   /\ calls' = << >>
                   /\ tasks' = tasks]_vars

\* C5: a delete or update message naming an id N that is not in the store
\* makes the interpreter call the tool with N and return "Task with ID N not
\* found", without an exception and without changing any task.
C5_MissingIdReportedNotFound ==
    [][(/\ Interpreted
        /\ intent' \in {"delete_task", "update_status"}
        /\ Readings[chat_message'].task_id.some
        /\ intent' = "update_status" => Readings[chat_message'].status.some
        /\ Readings[chat_message'].task_id.val \notin DOMAIN tasks) =>
          LET N == Readings[chat_message'].task_id.val
          IN  /\ Len(calls') = 1
              /\ calls'[1].op = RuleTool[LowestRule(Lower(chat_message'))]
              /\ calls'[1].task_id = N
              /\ Contains(response'.text,
                          "Task with ID " \o ToString(N) \o " not found")
              /\ response'.kind # "chat_error"
              /\ tasks' = tasks]_vars

\* C6: in the list branch, the filter passed to get_tasks is exactly the
\* result of extract_status on the message (no filter when it is None).
C6_ListFilterIsExtractStatus ==
    (Answered /\ intent = "list_tasks") =>
        calls = << [Call("get_tasks") EXCEPT
                       !.status = Readings[chat_message].status] >>

\* The message  add task <T> for <A> priority <N>:  T one or more words,
\* A one word, N an integer.
AddShape(user_message) ==
    LET words == Split(user_message)
        n     == Len(words)
    IN  /\ n >= 7
        /\ words[1] = "add" /\ words[2] = "task"
        /\ words[n - 3] = "for" /\ words[n - 1] = "priority"
        /\ ParseInt(words[n]).some
        /\ \A i \in 3..(n - 4) : Lower(words[i]) \notin {"for", "priority", "p"}

AddShapeTitle(user_message) ==
    Join(SubSeq(Split(user_message), 3, Len(Split(user_message)) - 4))
AddShapeAssignee(user_message) ==
    Split(user_message)[Len(Split(user_message)) - 2]
AddShapePriority(user_message) ==
    ParseInt(Split(user_message)[Len(Split(user_message))]).val

\* C7: "add task <T> for <A> priority <N>", reaching the add branch while a
\* sprint is active, calls add_task once with title T, assignee A, priority N
\* and status todo; the store then holds one more task, with those fields,
\* and the confirmation contains T and A.
C7_AddTaskRoundTrip ==
    [][(/\ Interpreted
        /\ intent' = "add_task"
        /\ ActiveSprints(Db) # {}
        /\ AddShape(chat_message')) =>
          LET T == AddShapeTitle(chat_message')
              A == AddShapeAssignee(chat_message')
              N == AddShapePriority(chat_message')
          IN  /\ calls' = << [Call("add_task") EXCEPT
                                 !.title = T, !.assignee = A, !.priority = N,
                                 !.status = Some("todo")] >>
              /\ DOMAIN tasks' = DOMAIN tasks \cup {lastId'}
              /\ lastId' \notin DOMAIN tasks
              /\ tasks'[lastId'].title = T
              /\ tasks'[lastId'].assignee = A
              /\ tasks'[lastId'].priority = N
              /\ tasks'[lastId'].status = "todo"
              /\ Contains(response'.text, T)
              /\ Contains(response'.text, A)]_vars

\* The message classifies to a store intent and the entities the intent
\* requires are present.
Actionable(user_message) ==
    LET rule == LowestRule(Lower(user_message))
    IN  \/ rule \in {1, 2, 3}
        \/ rule = 4 /\ extract_task_id(user_message).some
        \/ /\ rule = 5
           /\ extract_task_id(user_message).some
           /\ extract_status(user_message).some

\* C8: for a message that classifies to a store intent with its entities
\* present, generate is not called and the response is the one a working
\* backend would give.
C8_BackendOnlyForFallback ==
    [][(Interpreted /\ Actionable(chat_message')) =>
          /\ genCalls' = 0
          /\ response' = process_ai_request(Db, chat_message', "ok").response
      ]_vars

\* The responses that report an error of the taxonomy: MissingEntity,
\* NotFound, NoActiveSprint, BackendError, ValidationError.
ErrorKinds == {"clarify", "not_found", "no_sprint", "error", "invalid_status"}

\* C9: every run of the interpreter returns a text and lets no exception
\* through to chat(); a run that ends in an error of the taxonomy leaves the
\* tasks of the store as they were.
C9_ErrorsReturnTextStoreUnchanged ==
    [][Interpreted =>
          /\ response'.kind # "chat_error"
          /\ response'.text # ""
          /\ response'.kind \in ErrorKinds =>
                 tasks' = tasks /\ lastId' = lastId]_vars

\* C9 witness: the backend failed and the request was answered with the
\* interpreter's error text.
C9_Witness ==
    /\ Answered
    /\ backend = "error"
    /\ response.kind = "error"
    /\ Contains(response.text, BackendErrorText)

\* C10: while no sprint is active, every tool call fails with the "no active
\* sprint" error and changes no task.
C10_NoSprintNoChange ==
    [][(Interpreted /\ ActiveSprints(Db) = {} /\ calls' # << >>) =>
          /\ response'.kind = "no_sprint"
          /\ tasks' = tasks]_vars


-----------------------------------------------------------------------------
(* The JSON API (src/app.py): the routes the board calls.  A route takes   *)
(* the database and the JSON body data, a function from the keys the body  *)
(* has to their values, and returns [response, tasks, lastId].             *)

\* POST /update-task-status
route_update_task_status(db, data) ==
    IF ~({"task_id", "status"} \subseteq DOMAIN data)
    THEN Unchanged(db, Text("api_bad_request",
                            "Missing required fields: task_id, status"))
    ELSE IF data.status \notin Statuses
    THEN Unchanged(db, Text("api_bad_request",
             "Invalid status. Must be: todo, in_progress, or done"))
    ELSE IF data.task_id \notin DOMAIN db.tasks     \* cursor.rowcount == 0
    THEN Unchanged(db, Text("api_not_found", "Task not found"))
    ELSE [response |-> Text("api_success", "updated"),
          tasks |-> [db.tasks EXCEPT ![data.task_id].status = data.status],
          lastId |-> db.lastId]

\* DELETE /delete-task/<int:task_id>
route_delete_task(db, task_id) ==
    IF task_id \notin DOMAIN db.tasks               \* cursor.rowcount == 0
    THEN Unchanged(db, Text("api_not_found", "Task not found"))
    ELSE [response |-> Text("api_success", "deleted"),
          tasks |-> [i \in DOMAIN db.tasks \ {task_id} |-> db.tasks[i]],
          lastId |-> db.lastId]

\* A status the board does not have.
OtherStatus == "archived"

\* The bodies sent to /update-task-status, for the task ids 1..n.
UpdateBodies(n) ==
    { [task_id |-> i, status |-> st] : i \in 1..n,
                                        st \in Statuses \cup {OtherStatus} }
    \cup { [task_id |-> 1] }

-----------------------------------------------------------------------------
(* The threaded server.  app.run serves each request on a thread of its    *)
(* own, and every tool and route opens its own connection to tasks.db, so  *)
(* the statements of two requests interleave.  A tool runs two statements: *)
(* a SELECT, which reads the title, and the UPDATE or DELETE, committed at *)
(* once; nothing holds the database between the two.  A route runs one.    *)

\* Number of requests served at the same time.
NumThreads == 2

Threads == 1..NumThreads

\* No row count: the cursor has run no UPDATE or DELETE.
NoRowCount == -1

IdleThread ==
    [pc |-> "idle", op |-> "", task_id |-> 0, status |-> "",
     task_info |-> NoneStr, rowcount |-> NoRowCount,
     result |-> Text("idle", "")]

ThreadGoes(t, rec) == threads' = [threads EXCEPT ![t] = rec]

\* The dispatcher calls update_task_status(task_id, status) or
\* delete_task(task_id), with the entities of a chat message.
ToolCall(t) ==
    /\ threads[t].pc = "idle"
    /\ \E op \in {"update_task_status", "delete_task"},
          task_id \in 1..(lastId + 1), status \in Statuses :
         ThreadGoes(t, [IdleThread EXCEPT
                           !.pc = "called", !.op = op, !.task_id = task_id,
                           !.status = IF op = "update_task_status"
                                      THEN status ELSE ""])
    /\ UNCHANGED << store, chat, heard, extraction >>

\* SELECT title FROM tasks WHERE id = ?  and the test of task_info, in
\* update_task_status and in delete_task.
ToolSelect(t) ==
    /\ threads[t].pc = "called"
    /\ LET task_id == threads[t].task_id
       IN  IF task_id \in DOMAIN tasks
           THEN ThreadGoes(t, [threads[t] EXCEPT
                                  !.pc = "selected",
                                  !.task_info = Some(tasks[task_id].title)])
           ELSE ThreadGoes(t, [threads[t] EXCEPT
                                  !.pc = "responded",
                                  !.result = Text("not_found",
                                      ":x: Error: Task with ID "
                                      \o ToString(task_id) \o " not found")])
    /\ UNCHANGED << store, chat, heard, extraction >>

\* Number of rows a statement with  WHERE id = task_id  changes.
RowCount(task_id) == IF task_id \in DOMAIN tasks THEN 1 ELSE 0

\* UPDATE tasks SET status = ? WHERE id = ?, commit, and the return of
\* update_task_status.
UpdateWrite(t) ==
    /\ threads[t].pc = "selected"
    /\ threads[t].op = "update_task_status"
    /\ LET task_id == threads[t].task_id
           status  == threads[t].status
       IN  /\ tasks' = IF task_id \in DOMAIN tasks
                       THEN [tasks EXCEPT ![task_id].status = status]
                       ELSE tasks
           /\ ThreadGoes(t, [threads[t] EXCEPT
                  !.pc = "responded",
                  !.rowcount = RowCount(task_id),
                  !.result = Text("moved",
                      ":ok: Successfully moved task '"
                      \o threads[t].task_info.val
                      \o "' (ID " \o ToString(task_id) \o ") to "
                      \o StatusDisplay(status))])
    /\ UNCHANGED << sprints, lastId, chat, heard, extraction >>

\* DELETE FROM tasks WHERE id = ?, commit, and the return of delete_task.
DeleteWrite(t) ==
    /\ threads[t].pc = "selected"
    /\ threads[t].op = "delete_task"
    /\ LET task_id == threads[t].task_id
       IN  /\ tasks' = [i \in DOMAIN tasks \ {task_id} |-> tasks[i]]
           /\ ThreadGoes(t, [threads[t] EXCEPT
                  !.pc = "responded",
                  !.rowcount = RowCount(task_id),
                  !.result = Text("deleted",
                      ":bin: Successfully deleted task '"
                      \o threads[t].task_info.val
                      \o "' (ID " \o ToString(task_id) \o ")")])
    /\ UNCHANGED << sprints, lastId, chat, heard, extraction >>

\* What a route leaves in its thread and in table tasks.
RouteGoes(t, op, task_id, r) ==
    /\ tasks' = r.tasks
    /\ ThreadGoes(t, [IdleThread EXCEPT
           !.pc = "responded", !.op = op, !.task_id = task_id,
           !.rowcount = IF r.response.kind \in {"api_success", "api_not_found"}
                        THEN RowCount(task_id) ELSE NoRowCount,
           !.result = r.response])

\* POST /update-task-status: one UPDATE, committed if it changed a row.
RouteUpdate(t) ==
    /\ threads[t].pc = "idle"
    /\ \E data \in UpdateBodies(lastId + 1) :
         RouteGoes(t, "/update-task-status",
                   IF "status" \in DOMAIN data THEN data.task_id ELSE 0,
                   route_update_task_status(Db, data))
    /\ UNCHANGED << sprints, lastId, chat, heard, extraction >>

\* DELETE /delete-task/<task_id>: one DELETE, committed if it deleted a row.
RouteDelete(t) ==
    /\ threads[t].pc = "idle"
    /\ \E task_id \in 1..(lastId + 1) :
         RouteGoes(t, "/delete-task", task_id, route_delete_task(Db, task_id))
    /\ UNCHANGED << sprints, lastId, chat, heard, extraction >>

\* The response is sent and the thread serves another request.
ThreadReturn(t) ==
    /\ threads[t].pc = "responded"
    /\ ThreadGoes(t, IdleThread)
    /\ UNCHANGED << store, chat, heard, extraction >>

ThreadedInit ==
    /\ sprints \in SprintTables
    /\ tasks = [i \in 1..NumSampleTasks |-> SampleTasks[i]]
    /\ lastId = NumSampleTasks
    /\ pc = "idle"
    /\ chat_message = ""
    /\ backend = "idle"
    /\ genCalls = 0
    /\ intent = "idle"
    /\ calls = << >>
    /\ response = Text("idle", "")
    /\ threads = [t \in Threads |-> IdleThread]
    /\ heard = << >>
    /\ extraction = << >>

ThreadedNext ==
    \E t \in Threads :
        \/ ToolCall(t)
        \/ ToolSelect(t)
        \/ UpdateWrite(t)
        \/ DeleteWrite(t)
        \/ RouteUpdate(t)
        \/ RouteDelete(t)
        \/ ThreadReturn(t)

ThreadedSpec == ThreadedInit /\ [][ThreadedNext]_vars

\* C11: a request that has returned a success confirmation for an update or
\* a delete has changed a row: an update or delete that found its task gone
\* when it wrote reports "not found" instead.
C11_SuccessMeansRowChanged ==
    \A t \in DOMAIN threads :
        (/\ threads[t].pc = "responded"
         /\ threads[t].result.kind \in {"moved", "deleted", "api_success"})
        => threads[t].rowcount > 0

-----------------------------------------------------------------------------
(* The board's requests, one after the other with the chat messages.       *)

\* data.get(key, default)
Get(data, key, default) == IF key \in DOMAIN data THEN data[key] ELSE default

\* POST /add-task
route_add_task(db, data) ==
    IF ~({"title", "assignee", "priority"} \subseteq DOMAIN data)
    THEN Unchanged(db, Text("api_bad_request",
             "Missing required fields: title, assignee, priority"))
    ELSE IF ActiveSprints(db) = {}
    THEN Unchanged(db, Text("api_bad_request", "No active sprint found"))
    ELSE LET task_id == db.lastId + 1
             row == [title |-> data.title,
                     description |-> Get(data, "description", ""),
                     assignee |-> data.assignee,
                     priority |-> data.priority,
                     status |-> Get(data, "status", "todo"),
                     blocker |-> Get(data, "blocker", NoneStr),
                     sprint_id |-> ActiveSprint(db).id]
         IN  [response |-> Text("api_created", ToString(task_id)),
              tasks |-> [i \in DOMAIN db.tasks \cup {task_id} |->
                            IF i = task_id THEN row ELSE db.tasks[i]],
              lastId |-> task_id]

\* The bodies sent to /add-task.
AddBodies ==
    LET task == [title |-> "Release notes", assignee |-> "Ann",
                 priority |-> 5]
    IN  { task, [title |-> "Release notes"] }
        \cup { task @@ [status |-> st] : st \in {"done", OtherStatus} }

\* A route has run to its end and its response is in flight.
RouteResponds(route, r) ==
    /\ r.lastId <= NumSampleTasks + MaxInserts
    /\ pc' = "responded"
    /\ chat_message' = ""
    /\ backend' = "idle"
    /\ genCalls' = 0
    /\ intent' = route
    /\ calls' = << >>
    /\ response' = r.response
    /\ tasks' = r.tasks
    /\ lastId' = r.lastId
    /\ UNCHANGED << sprints, threads, heard, extraction >>

AddTaskRequest ==
    /\ pc = "idle"
    /\ \E data \in AddBodies :
         \E r \in { route_add_task(Db, data) } : RouteResponds("/add-task", r)

UpdateTaskStatusRequest ==
    /\ pc = "idle"
    /\ \E data \in UpdateBodies(lastId + 1) :
         \E r \in { route_update_task_status(Db, data) } :
             RouteResponds("/update-task-status", r)

DeleteTaskRequest ==
    /\ pc = "idle"
    /\ \E task_id \in 1..(lastId + 1) :
         \E r \in { route_delete_task(Db, task_id) } :
             RouteResponds("/delete-task", r)

BoardNext ==
    \/ Next
    \/ AddTaskRequest
    \/ UpdateTaskStatusRequest
    \/ DeleteTaskRequest

BoardSpec == Init /\ [][BoardNext]_vars

\* C12: whatever chat messages and board requests have been served, the
\* status of every task of the store is todo, in_progress or done.
C12_StatusInEnum == \A i \in DOMAIN tasks : tasks[i].status \in Statuses

-----------------------------------------------------------------------------
(* A caller that repeats a message: process_ai_request called with the     *)
(* listing message again and again, and with other messages in between.    *)

ListMessage == "list tasks"

\* Number of times the caller repeats the listing message on one table.
MaxRepeats == 2

\* process_ai_request(ListMessage); the caller keeps the text.
InterpretList ==
    /\ Len(heard) < MaxRepeats
    /\ \E gen \in BackendOutcomes :
         \E r \in { process_ai_request(Db, ListMessage, gen) } :
             /\ heard' = Append(heard, r.response.text)
             /\ tasks' = r.tasks
             /\ lastId' = r.lastId
    /\ UNCHANGED << sprints, chat, threads, extraction >>

\* process_ai_request of another message; the texts the caller has kept are
\* of no use once table tasks has changed.
InterpretOther ==
    /\ \E user_message \in Messages \ {ListMessage}, gen \in BackendOutcomes :
         \E r \in { process_ai_request(Db, user_message, gen) } :
             /\ r.lastId <= NumSampleTasks + MaxInserts
             /\ heard' = IF r.tasks = tasks THEN heard ELSE << >>
             /\ tasks' = r.tasks
             /\ lastId' = r.lastId
    /\ UNCHANGED << sprints, chat, threads, extraction >>

RepeatNext == InterpretList \/ InterpretOther

RepeatSpec == Init /\ [][RepeatNext]_vars

\* C13: interpret("list tasks") leaves the store as it was, and returns the
\* text the same call returned before if the store has not changed since.
C13_ListTwiceSameOutput ==
    [][ Len(heard') = Len(heard) + 1
        => /\ store' = store
           /\ heard # << >> => heard'[Len(heard')] = heard[Len(heard)] ]_vars

-----------------------------------------------------------------------------
(* The priority extractor on its own: parse_task_creation applied to       *)
(* messages made of the words its priority loop looks at.                  *)

\* Longest message, in words.
MaxWords == 4

PriorityWords == {"priority", "P", "7", "2", "high", "Low", "x"}

PriorityMessages ==
    { Join(ws) : ws \in UNION { [1..k -> PriorityWords] : k \in 0..MaxWords } }

\* One call of parse_task_creation.
ExtractPriority ==
    /\ extraction = << >>
    /\ \E message \in PriorityMessages :
         extraction' = [message  |-> message,
                        priority |-> parse_task_creation(message).priority]
    /\ UNCHANGED << store, chat, threads, heard >>

ExtractNext == ExtractPriority

ExtractSpec == Init /\ [][ExtractNext]_vars

\* The words of the message an extraction was made from.
ExtractedWords == Split(extraction.message)

\* Word i is "priority" or "p" and the word after it is a number.
ExplicitAt(words, i) ==
    /\ i + 1 <= Len(words)
    /\ Lower(words[i]) \in {"priority", "p"}
    /\ ParseInt(words[i + 1]).some

\* Word i is "high" or "low".
LevelAt(words, i) == Lower(words[i]) \in {"high", "low"}

Explicits(words) == { i \in 1..Len(words) : ExplicitAt(words, i) }
Levels(words) == { i \in 1..Len(words) : LevelAt(words, i) }

Least(S) == CHOOSE i \in S : \A j \in S : i <= j

\* The number of the first explicit pair; 8 or 3 for the first level word.
FirstExplicitNumber(words) == ParseInt(words[Least(Explicits(words)) + 1]).val
FirstLevelNumber(words) ==
    IF Lower(words[Least(Levels(words))]) = "high" THEN 8 ELSE 3

\* The message has neither an explicit pair nor a level word: the default.
DefaultWhenNeither(words, priority) ==
    (Explicits(words) = {} /\ Levels(words) = {}) => priority = DefaultPriority

\* C14, as claimed: the priority is 5 when the message has neither an
\* explicit pair nor "high" or "low"; when it has both an explicit number
\* and such a word, the one that comes first in the message decides.
C14_FirstOfEitherKindWins ==
    extraction # << >> =>
        LET words == ExtractedWords
            priority == extraction.priority
        IN  /\ DefaultWhenNeither(words, priority)
            /\ (Explicits(words) # {} /\ Levels(words) # {}) =>
                   priority = IF Least(Explicits(words)) < Least(Levels(words))
                              THEN FirstExplicitNumber(words)
                              ELSE FirstLevelNumber(words)

\* C14, amended: the priority is 5 when the message has neither an explicit
\* pair nor "high" or "low"; when it has both an explicit number and such a
\* word, the priority is the number of the first explicit pair, whether the
\* word comes before it or after it.
C14_ExplicitNumberWins ==
    extraction # << >> =>
        LET words == ExtractedWords
            priority == extraction.priority
        IN  /\ DefaultWhenNeither(words, priority)
            /\ (Explicits(words) # {} /\ Levels(words) # {}) =>
                   priority = FirstExplicitNumber(words)

\* A message with "high" or "low" before its first explicit pair and another
\* after it has been parsed, and the number of the pair is the priority.
C14_Witness ==
    /\ extraction # << >>
    /\ Explicits(ExtractedWords) # {}
    /\ \E i, j \in Levels(ExtractedWords) :
           i < Least(Explicits(ExtractedWords))
           /\ j > Least(Explicits(ExtractedWords)) + 1
    /\ extraction.priority = FirstExplicitNumber(ExtractedWords)
=============================================================================
